---- MODULE Spec2Model ----
(***************************************************************************)
(* A model of src/lib/fb2wd.ts: the FB2WDConverter class (the outcome      *)
(* tally `counter`, the two missing-mapping sets, the term / triple /      *)
(* clause walk and `convert`) and the batch loop of `main`.                 *)
(*                                                                         *)
(* The SPARQL parser and generator (sparqljs), the type guards and the     *)
(* prefix constants live outside src/lib/fb2wd.ts.  An input text is       *)
(* modelled by what the parser makes of it after preprocessing: either a   *)
(* parse failure or a query tree.  An IRI is a sequence of tokens, so that *)
(* startsWith and slice are computed on it as the code computes them.      *)
(* Every term position of a tree holds a term of its own: no term object  *)
(* is shared between two positions.                                        *)
(* A thrown ConversionError is a result whose `code` is not "ok"; every    *)
(* operator of the walk returns at once when a callee's code is not "ok",  *)
(* which is how the exception leaves the loops.                            *)
(***************************************************************************)
EXTENDS Naturals, Sequences, FiniteSets, TLC

\* ------------------------------------------------------------- bounds
\* Most where-clauses of one query.
MaxClauses == 2
\* Most triples of one query (over all its basic graph patterns).
MaxTriples == 2
\* Most convert calls of a run of SpecConvert.
MaxCalls == 2
\* Most candidate parses of one example, and most examples of a batch.
MaxParses == 3
MaxExamples == 2

\* ---------------------------------------------------- prefixes, tables
\* utils/freebase and utils/wikidata: the values are not part of src/.  The
\* entity ids of the dataset are written ns:m.<id> (see the filter that
\* preprocessWebQuestionsSparql strips), so the legacy entity prefix extends
\* the legacy property prefix.
FB_PROPERTY_PREFIX == <<"fb:">>
FB_ENTITY_PREFIX == <<"fb:", "m.">>
ENTITY_PREFIX == <<"wd:">>
PROPERTY_PREFIX == <<"wdt:">>

\* data/entity-mappings.json and data/property-mappings.json, read once by
\* the constructor: e1 and p1 have an entry, e2, e3 and p2 have none.
entityMappings == (<<"e1">> :> <<"Q1">>)
propertyMappings == (<<"p1">> :> <<"P1">>)

\* ---------------------------------------------------------------- terms
NamedNode(v) == [termType |-> "NamedNode", value |-> v]
Variable(n) == [termType |-> "Variable", value |-> <<n>>]
Literal(n) == [termType |-> "Literal", value |-> <<n>>]

isNamedNode(node) == node.termType = "NamedNode"
isVariable(node) == node.termType = "Variable"
isBasicGraphPattern(clause) == clause.type = "bgp"

\* String.prototype.startsWith and String.prototype.slice(n).
startsWith(s, prefix) ==
    /\ Len(s) >= Len(prefix)
    /\ \A i \in 1..Len(prefix) : s[i] = prefix[i]
slice(s, n) == [i \in 1..(Len(s) - n) |-> s[i + n]]

\* Array.prototype.push in the place of Set.prototype.add.
ArrayPush(set, v) == Append(set, v)

\* Set.prototype.add on an insertion-ordered set.
SetAdd(set, v) ==
    IF \E i \in 1..Len(set) : set[i] = v THEN set ELSE Append(set, v)

\* ------------------------------------------------------ outcome tally
\* count with the increment lost on a key the counter already holds.
countOnce(self, key) ==
    [self EXCEPT !.counter = [k \in DOMAIN self.counter \cup {key} |->
                                 IF k = key THEN 1 ELSE self.counter[k]]]

\* count(key): the counter is a record whose keys appear on first use.
count(self, key) ==
    LET c0 == IF key \in DOMAIN self.counter
              THEN self.counter
              ELSE [k \in DOMAIN self.counter \cup {key} |->
                        IF k = key THEN 0 ELSE self.counter[k]]
    IN [self EXCEPT !.counter = [c0 EXCEPT ![key] = c0[key] + 1]]

\* ------------------------------------------------------------ the walk
\* `self` is the converter (its counter and its two missing-mapping sets).  Each operator
\* returns the node as the call leaves it (mutated in place or not), the
\* code of the ConversionError it threw ("ok": it returned), and `self`.
Walked(node, code, self) == [node |-> node, code |-> code, self |-> self]

\* convertEntity recording the identifier before it checks the prefix.
convertEntityEager(entity, self) ==
    IF isNamedNode(entity)
    THEN LET fb_id == slice(entity.value, Len(FB_ENTITY_PREFIX))
             seen == [self EXCEPT !.missingEntityMappings = SetAdd(@, fb_id)]
         IN IF ~startsWith(entity.value, FB_ENTITY_PREFIX)
            THEN Walked(entity, "UnknownEntity", seen)
            ELSE IF fb_id \notin DOMAIN entityMappings
                 THEN Walked(entity, "NoEntityMapping", seen)
                 ELSE Walked([entity EXCEPT !.value = ENTITY_PREFIX \o entityMappings[fb_id]],
                             "ok", self)
    ELSE IF ~isVariable(entity)
         THEN Walked(entity, "UnsupportedNodeType", self)
         ELSE Walked(entity, "ok", self)

convertEntity(entity, self) ==
    IF isNamedNode(entity)
    THEN IF ~startsWith(entity.value, FB_ENTITY_PREFIX)
         THEN Walked(entity, "UnknownEntity", self)
         ELSE LET fb_id == slice(entity.value, Len(FB_ENTITY_PREFIX))
              IN IF fb_id \notin DOMAIN entityMappings
                 THEN Walked(entity, "NoEntityMapping",
                             [self EXCEPT !.missingEntityMappings = SetAdd(@, fb_id)])
                 ELSE Walked([entity EXCEPT !.value = ENTITY_PREFIX \o entityMappings[fb_id]],
                             "ok", self)
    ELSE IF ~isVariable(entity)
         THEN Walked(entity, "UnsupportedNodeType", self)
         ELSE Walked(entity, "ok", self)

\* convertProperty without the isVariable test: whatever is no IRI throws.
convertPropertyStrict(entity, self) ==
    IF isNamedNode(entity)
    THEN IF ~startsWith(entity.value, FB_PROPERTY_PREFIX)
         THEN Walked(entity, "UnknownProperty", self)
         ELSE LET fb_id == slice(entity.value, Len(FB_PROPERTY_PREFIX))
              IN IF fb_id \notin DOMAIN propertyMappings
                 THEN Walked(entity, "NoPropertyMapping",
                             [self EXCEPT !.missingPropertyMappings = SetAdd(@, fb_id)])
                 ELSE Walked([entity EXCEPT !.value = PROPERTY_PREFIX \o propertyMappings[fb_id]],
                             "ok", self)
    ELSE Walked(entity, "UnsupportedPropertyType", self)

convertProperty(entity, self) ==
    IF isNamedNode(entity)
    THEN IF ~startsWith(entity.value, FB_PROPERTY_PREFIX)
         THEN Walked(entity, "UnknownProperty", self)
         ELSE LET fb_id == slice(entity.value, Len(FB_PROPERTY_PREFIX))
              IN IF fb_id \notin DOMAIN propertyMappings
                 THEN Walked(entity, "NoPropertyMapping",
                             [self EXCEPT !.missingPropertyMappings = SetAdd(@, fb_id)])
                 ELSE Walked([entity EXCEPT !.value = PROPERTY_PREFIX \o propertyMappings[fb_id]],
                             "ok", self)
    ELSE IF ~isVariable(entity)
         THEN Walked(entity, "UnsupportedPropertyType", self)
         ELSE Walked(entity, "ok", self)

\* convertTriple, line by line: each step is given the triple as the steps
\* before it left it and the result of its own call, and goes on to the
\* next step only if that call returned.
tripleObject(triple, o) ==
    Walked([triple EXCEPT !.object = o.node], o.code, o.self)

triplePredicate(triple, p) ==
    IF p.code # "ok"
    THEN Walked([triple EXCEPT !.predicate = p.node], p.code, p.self)
    ELSE tripleObject([triple EXCEPT !.predicate = p.node],
                      convertEntity(triple.object, p.self))

tripleSubject(triple, s) ==
    IF s.code # "ok"
    THEN Walked([triple EXCEPT !.subject = s.node], s.code, s.self)
    ELSE triplePredicate([triple EXCEPT !.subject = s.node],
                         convertProperty(triple.predicate, s.self))

\* convertTriple without its third line: the object is left as it is.
convertTripleNoObject(triple, self) ==
    LET s == convertEntity(triple.subject, self)
        t1 == [triple EXCEPT !.subject = s.node]
        p == convertProperty(triple.predicate, s.self)
    IN IF s.code # "ok" THEN Walked(t1, s.code, s.self)
       ELSE Walked([t1 EXCEPT !.predicate = p.node], p.code, p.self)

\* convertTriple going on to the next term after a term has thrown, and
\* reporting the first error at the end.
convertTripleCollectAll(triple, self) ==
    LET s == convertEntity(triple.subject, self)
        p == convertProperty(triple.predicate, s.self)
        o == convertEntity(triple.object, p.self)
    IN Walked([subject |-> s.node, predicate |-> p.node, object |-> o.node],
              IF s.code # "ok" THEN s.code ELSE IF p.code # "ok" THEN p.code ELSE o.code,
              o.self)

convertTriple(triple, self) ==
    tripleSubject(triple, convertEntity(triple.subject, self))

\* The loop of convertBGP from its i-th triple on; bgpTriple is the loop's
\* body once convertTriple has ended on the i-th triple with result t.
RECURSIVE convertTriplesFrom(_, _, _)
bgpTriple(triples, i, t) ==
    IF t.code # "ok"
    THEN Walked([triples EXCEPT ![i] = t.node], t.code, t.self)
    ELSE convertTriplesFrom([triples EXCEPT ![i] = t.node], i + 1, t.self)

convertTriplesFrom(triples, i, self) ==
    IF i > Len(triples)
    THEN Walked(triples, "ok", self)
    ELSE bgpTriple(triples, i, convertTriple(triples[i], self))

bgpDone(clause, r) == Walked([clause EXCEPT !.triples = r.node], r.code, r.self)

convertBGP(clause, self) ==
    bgpDone(clause, convertTriplesFrom(clause.triples, 1, self))

\* convertWhereClause passing over a clause that is no basic graph pattern.
convertWhereClauseLenient(clause, self) ==
    IF isBasicGraphPattern(clause)
    THEN convertBGP(clause, self)
    ELSE Walked(clause, "ok", self)

convertWhereClause(clause, self) ==
    IF isBasicGraphPattern(clause)
    THEN convertBGP(clause, self)
    ELSE Walked(clause, "Unsupported", self)

\* The loop of convert over parsed.where from its i-th clause on;
\* whereClause is the loop's body once convertWhereClause has ended on the
\* i-th clause with result c.
RECURSIVE convertClausesFrom(_, _, _)
whereClause(where, i, c) ==
    IF c.code # "ok"
    THEN Walked([where EXCEPT ![i] = c.node], c.code, c.self)
    ELSE convertClausesFrom([where EXCEPT ![i] = c.node], i + 1, c.self)

convertClausesFrom(where, i, self) ==
    IF i > Len(where)
    THEN Walked(where, "ok", self)
    ELSE whereClause(where, i, convertWhereClause(where[i], self))

\* ------------------------------------------------------------- convert
\* The codes a ConversionError carries; what the parser and the generator
\* throw is no ConversionError.
ConversionErrorCodes ==
    {"UnknownEntity", "NoEntityMapping", "UnsupportedNodeType",
     "UnknownProperty", "NoPropertyMapping", "UnsupportedPropertyType",
     "Unsupported"}
Outcomes == ConversionErrorCodes \cup {"success", "Unknown"}

Tree(hasWhere, where) == [hasWhere |-> hasWhere, where |-> where]
NoTree == Tree(FALSE, <<>>)
\* What convert returns: the generated text, or undefined.
Undefined == [kind |-> "undefined", text |-> NoTree]
Stringify(parsed) == [kind |-> "string", text |-> parsed]

Returned(ret, parsed, outcome, self) ==
    [ret |-> ret, parsed |-> parsed, outcome |-> outcome, self |-> self, threw |-> FALSE]

\* A catch block that handles a ConversionError only and rethrows the rest.
catchTyped(e, parsed, self) ==
    IF e \in ConversionErrorCodes
    THEN Returned(Undefined, parsed, e, count(self, e))
    ELSE [Returned(Undefined, parsed, "", self) EXCEPT !.threw = TRUE]

\* The catch block of convert: e is the code of a ConversionError, or the
\* name of any other error.
catch(e, parsed, self) ==
    IF e \in ConversionErrorCodes
    THEN Returned(Undefined, parsed, e, count(self, e))
    ELSE Returned(Undefined, parsed, "Unknown", count(self, "Unknown"))

\* Lines 146-148: the generator, count('success') and the return.
generate(sparql, parsed, self) ==
    IF ~sparql.stringifies
    THEN catch("Error", parsed, self)
    ELSE Returned(Stringify(parsed), parsed, "success", count(self, "success"))

\* The walk over parsed.where has ended with result w.
walked(sparql, w) ==
    IF w.code # "ok"
    THEN catch(w.code, [sparql.tree EXCEPT !.where = w.node], w.self)
    ELSE generate(sparql, [sparql.tree EXCEPT !.where = w.node], w.self)

\* convert(sparql): sparql is the input text, given by what the parser and
\* the generator make of it (parses: the parser returns sparql.tree for the
\* preprocessed text; stringifies: the generator returns a text for the
\* walked tree).  preprocessWebQuestionsSparql runs before the try block; it
\* concatenates and replaces on a string and throws nothing.
convert(sparql, self) ==
    IF ~sparql.parses
    THEN catch("SyntaxError", NoTree, self)
    ELSE IF sparql.tree.hasWhere
         THEN walked(sparql, convertClausesFrom(sparql.tree.where, 1, self))
         ELSE generate(sparql, sparql.tree, self)

\* ---------------------------------------------------------- the inputs
Triple(s, p, o) == [subject |-> s, predicate |-> p, object |-> o]
Bgp(triples) == [type |-> "bgp", triples |-> triples]
FbEntity(id) == NamedNode(FB_ENTITY_PREFIX \o <<id>>)
FbProperty(id) == NamedNode(FB_PROPERTY_PREFIX \o <<id>>)
OtherIri == NamedNode(<<"rdfs:", "label">>)

\* The triples the queries are built from: every branch of convertEntity
\* and convertProperty in every position it can be reached in, and the
\* triples in which a failing term is followed by another failing term.
TAllMapped == Triple(FbEntity("e1"), FbProperty("p1"), FbEntity("e1"))
TAllVariables == Triple(Variable("x"), Variable("p"), Variable("y"))
TUnmappedAll == Triple(FbEntity("e2"), FbProperty("p2"), FbEntity("e3"))
TUnmappedPredicate == Triple(FbEntity("e1"), FbProperty("p2"), FbEntity("e2"))
TUnmappedObject == Triple(Variable("x"), FbProperty("p1"), FbEntity("e3"))
TUnknownSubject == Triple(OtherIri, FbProperty("p2"), Variable("x"))
TUnknownPredicate == Triple(Variable("x"), OtherIri, FbEntity("e2"))
TLiteralObject == Triple(Variable("x"), FbProperty("p1"), Literal("en"))
TLiteralPredicate == Triple(FbEntity("e1"), Literal("path"), FbEntity("e2"))
Triples ==
    {TAllMapped, TAllVariables, TUnmappedAll, TUnmappedPredicate, TUnmappedObject,
     TUnknownSubject, TUnknownPredicate, TLiteralObject, TLiteralPredicate}

\* A clause that is no basic graph pattern, with a triple inside it.
Optional == [type |-> "optional", triples |-> <<TUnmappedAll>>]

\* The where-clauses of at most c clauses and at most m triples in all.
RECURSIVE WheresOf(_, _)
WheresOf(c, m) ==
    IF c = 0 THEN {<<>>}
    ELSE {<<>>}
         \cup {<<Optional>> \o rest : rest \in WheresOf(c - 1, m)}
         \cup UNION {{<<Bgp(ts)>> \o rest :
                        ts \in [1..j -> Triples], rest \in WheresOf(c - 1, m - j)} :
                     j \in 1..m}

Sparql(parses, tree, stringifies) ==
    [parses |-> parses, tree |-> tree, stringifies |-> stringifies]
Unparsable == Sparql(FALSE, NoTree, FALSE)
Trees == {NoTree} \cup {Tree(TRUE, w) : w \in WheresOf(MaxClauses, MaxTriples)}
Queries == {Unparsable} \cup {Sparql(TRUE, t, g) : t \in Trees, g \in BOOLEAN}

\* The batch: three candidate parses (two that convert, to different texts,
\* and one that does not) and two questions.
QMapped == Sparql(TRUE, Tree(TRUE, <<Bgp(<<TAllMapped>>)>>), TRUE)
QVariables == Sparql(TRUE, Tree(TRUE, <<Bgp(<<TAllVariables>>)>>), TRUE)
QUnmapped == Sparql(TRUE, Tree(TRUE, <<Bgp(<<TUnmappedAll>>)>>), TRUE)
BatchQueries == {QMapped, QVariables, QUnmapped}
Questions == {"q1", "q2"}
Example(question, parses) == [RawQuestion |-> question, Parses |-> parses]
Examples ==
    {Example(q, ps) : q \in Questions,
                      ps \in UNION {[1..n -> BatchQueries] : n \in 0..MaxParses}}
NoExample == Example("", <<>>)

\* ------------------------------------------------------------ the state
VARIABLES
    converter,  \* the FB2WDConverter: counter and the two missing-mapping sets
    pc,         \* "main", "map" (inside ex.Parses.map), "called", "returned", "threw"
    sparql,     \* the argument of the convert call under way
    parsed,     \* the query tree of that call, as the walk left it
    ret,        \* what that call returned
    outcome,    \* the key that call counted
    calls,      \* the number of convert calls made so far
    ex,         \* the example main is mapping
    idx,        \* the position in ex.Parses of the next parse to convert
    converted,  \* the results of ex.Parses.map so far
    examples,   \* the output records so far
    consumed,   \* the questions of the examples main has taken, in order
    offered     \* the number of candidate parses of those examples

vars == <<converter, pc, sparql, parsed, ret, outcome, calls,
          ex, idx, converted, examples, consumed, offered>>
callVars == <<sparql, parsed, ret, outcome>>
mainVars == <<ex, idx, converted, examples, consumed, offered>>

NewConverter ==
    [counter |-> [k \in {} |-> 0],
     missingEntityMappings |-> <<>>,
     missingPropertyMappings |-> <<>>]

Init ==
    /\ converter = NewConverter
    /\ pc = "main"
    /\ sparql = Unparsable
    /\ parsed = NoTree
    /\ ret = Undefined
    /\ outcome = ""
    /\ calls = 0
    /\ ex = NoExample
    /\ idx = 1
    /\ converted = <<>>
    /\ examples = <<>>
    /\ consumed = <<>>
    /\ offered = 0

NoCall ==
    /\ sparql' = Unparsable
    /\ parsed' = NoTree
    /\ ret' = Undefined
    /\ outcome' = ""

\* What a call of convert that ended with r leaves behind.
Leaves(r) ==
    /\ converter' = r.self
    /\ parsed' = r.parsed
    /\ ret' = r.ret
    /\ outcome' = r.outcome
    /\ pc' = IF r.threw THEN "threw" ELSE "returned"

\* One call of convert, from its entry to its return.
Convert ==
    /\ pc = "called"
    /\ Leaves(convert(sparql, converter))
    /\ calls' = calls + 1
    /\ UNCHANGED <<sparql, mainVars>>

\* ------------------------------------------------------------- main
Null == [kind |-> "null", text |-> NoTree]
\* Boolean(v) of a value convert returned (a generated text is not empty).
Truthy(v) == v.kind = "string"

\* The callback of fbQuestions.Questions.map takes the next example.
StartExample ==
    /\ pc = "main"
    /\ Len(consumed) < MaxExamples
    /\ \E e \in Examples :
          /\ ex' = e
          /\ consumed' = Append(consumed, e.RawQuestion)
          /\ offered' = offered + Len(e.Parses)
    /\ idx' = 1
    /\ converted' = <<>>
    /\ pc' = "map"
    /\ UNCHANGED <<converter, callVars, calls, examples>>

\* A loop over the parses that ends at the first parse that converts.
MapDoneAtFirst(e, i, results) ==
    \/ i > Len(e.Parses)
    \/ \E j \in 1..Len(results) : Truthy(results[j])

\* Whether ex.Parses.map has called its callback on every parse.
MapDone(e, i, results) == i > Len(e.Parses)

\* ex.Parses.map calls converter.convert(parse.Sparql) on the next parse.
MapCall ==
    /\ pc = "map"
    /\ ~MapDone(ex, idx, converted)
    /\ sparql' = ex.Parses[idx]
    /\ pc' = "called"
    /\ UNCHANGED <<converter, parsed, ret, outcome, calls, mainVars>>

\* ... and stores what it returned.
MapCollect ==
    /\ pc = "returned"
    /\ converted' = Append(converted, ret)
    /\ idx' = idx + 1
    /\ pc' = "map"
    /\ NoCall
    /\ UNCHANGED <<converter, calls, ex, examples, consumed, offered>>

\* The record with the last result that is kept, not the first.
OutputRecordLast(e, results) ==
    LET kept == SelectSeq(results, Truthy)
    IN [question |-> e.RawQuestion,
        sparql |-> IF Len(kept) > 0 THEN kept[Len(kept)] ELSE Null]

\* .filter(Boolean), and the record the callback returns.
OutputRecord(e, results) ==
    LET kept == SelectSeq(results, Truthy)
    IN [question |-> e.RawQuestion,
        sparql |-> IF Len(kept) > 0 THEN kept[1] ELSE Null]

EndExample ==
    /\ pc = "map"
    /\ MapDone(ex, idx, converted)
    /\ examples' = Append(examples, OutputRecord(ex, converted))
    /\ pc' = "main"
    /\ UNCHANGED <<converter, callVars, calls, ex, idx, converted, consumed, offered>>

Next ==
    \/ StartExample
    \/ MapCall
    \/ Convert
    \/ MapCollect
    \/ EndExample

Spec == Init /\ [][Next]_vars

\* ------------------------------------------- convert, called on its own
\* A caller passes any query to convert ...
Call ==
    /\ pc = "main"
    /\ calls < MaxCalls
    /\ \E q \in Queries : sparql' = q
    /\ pc' = "called"
    /\ UNCHANGED <<converter, parsed, ret, outcome, calls, mainVars>>

\* ... and drops what it returned.
Return ==
    /\ pc = "returned"
    /\ pc' = "main"
    /\ NoCall
    /\ UNCHANGED <<converter, calls, mainVars>>

NextConvert ==
    \/ Call
    \/ Convert
    \/ Return

SpecConvert == Init /\ [][NextConvert]_vars

\* ===================================================================
\* The claims.
\* ===================================================================
\* The step of a behaviour that is one call of convert.
ConvertStep == pc = "called" /\ pc' # "called"

Range(seq) == {seq[i] : i \in 1..Len(seq)}
Occurrences(seq, v) == Cardinality({i \in 1..Len(seq) : seq[i] = v})
CountOf(counter, key) == IF key \in DOMAIN counter THEN counter[key] ELSE 0

RECURSIVE SumOver(_, _)
SumOver(counter, keys) ==
    IF keys = {} THEN 0
    ELSE LET k == CHOOSE x \in keys : TRUE
         IN counter[k] + SumOver(counter, keys \ {k})
TallySum(counter) == SumOver(counter, DOMAIN counter)

\* The call added 1 to the count of key and left every other count alone.
IncrementsOnly(key) ==
    /\ DOMAIN converter'.counter = DOMAIN converter.counter \cup {key}
    /\ \A k \in DOMAIN converter'.counter :
          converter'.counter[k] =
              CountOf(converter.counter, k) + (IF k = key THEN 1 ELSE 0)

\* C2: every call of convert records exactly one outcome.  In every state
\* the counts of the tally add up to the number of convert calls made; each
\* call adds exactly 1 to exactly one category, which is success, a typed
\* failure category or Unknown; no other step touches the tally.
C2_OneOutcomePerCall ==
    /\ [](/\ TallySum(converter.counter) = calls
          /\ DOMAIN converter.counter \subseteq Outcomes)
    /\ [][IF ConvertStep
          THEN \E key \in Outcomes : IncrementsOnly(key)
          ELSE converter'.counter = converter.counter]_vars

\* Two calls have added to the same typed failure category.
C2_Witness ==
    /\ pc = "returned"
    /\ calls = 2
    /\ outcome \in ConversionErrorCodes
    /\ converter.counter[outcome] = 2

\* C4: no failure propagates past convert.  Every call returns (it never
\* ends by throwing); it returns a generated text exactly when the outcome it
\* recorded is success, and undefined exactly when that outcome is a typed
\* failure category or Unknown; a text the parser rejects is recorded as
\* Unknown, a walked tree the generator rejects is recorded as Unknown, and
\* Unknown is recorded for nothing else.
C4_FailuresStayInside ==
    /\ pc # "threw"
    /\ pc = "called" => ~convert(sparql, converter).threw
    /\ pc = "returned" =>
          /\ outcome \in Outcomes
          /\ ret.kind = "string" <=> outcome = "success"
          /\ ret = Undefined <=> outcome \in ConversionErrorCodes \cup {"Unknown"}
          /\ ~sparql.parses => outcome = "Unknown"
          /\ (sparql.parses /\ ~sparql.stringifies) => outcome # "success"
          /\ outcome = "Unknown" => (~sparql.parses \/ ~sparql.stringifies)

\* The generator threw on a tree whose walk had rewritten an IRI.
C4_Witness ==
    /\ pc = "returned"
    /\ sparql.parses
    /\ ~sparql.stringifies
    /\ outcome = "Unknown"
    /\ ret = Undefined
    /\ parsed # sparql.tree

\* -------------------------------------------------- the walk, as specified
\* The terms and clauses of a where-clause in the order of the walk: clause
\* by clause; of a basic graph pattern its triples in document order, and of
\* a triple its subject (an entity position), its predicate (a relation
\* position), its object (an entity position); any other clause is one item.
Fields == <<"subject", "predicate", "object">>
TripleItems(where, i) ==
    [k \in 1..(3 * Len(where[i].triples)) |->
        LET j == ((k - 1) \div 3) + 1
            f == Fields[((k - 1) % 3) + 1]
        IN [kind |-> IF f = "predicate" THEN "property" ELSE "entity",
            clause |-> i, triple |-> j, field |-> f,
            term |-> where[i].triples[j][f]]]
ClauseItem(i) ==
    [kind |-> "clause", clause |-> i, triple |-> 0, field |-> "",
     term |-> Literal("")]
RECURSIVE ItemsFrom(_, _)
ItemsFrom(where, i) ==
    IF i > Len(where) THEN <<>>
    ELSE (IF where[i].type = "bgp" THEN TripleItems(where, i) ELSE <<ClauseItem(i)>>)
         \o ItemsFrom(where, i + 1)
Items(where) == ItemsFrom(where, 1)

LegacyPrefix(kind) == IF kind = "entity" THEN FB_ENTITY_PREFIX ELSE FB_PROPERTY_PREFIX
SuccessorPrefix(kind) == IF kind = "entity" THEN ENTITY_PREFIX ELSE PROPERTY_PREFIX
Table(kind) == IF kind = "entity" THEN entityMappings ELSE propertyMappings
LocalId(item) == SubSeq(item.term.value, Len(LegacyPrefix(item.kind)) + 1, Len(item.term.value))
HasLegacyPrefix(item) ==
    SubSeq(item.term.value, 1, Len(LegacyPrefix(item.kind))) = LegacyPrefix(item.kind)

\* What visiting an item must end with: "ok", or the failure category.
Verdict(item) ==
    CASE item.kind = "clause" -> "Unsupported"
      [] item.term.termType = "Variable" -> "ok"
      [] item.term.termType = "NamedNode" ->
            IF ~HasLegacyPrefix(item)
            THEN (IF item.kind = "entity" THEN "UnknownEntity" ELSE "UnknownProperty")
            ELSE IF LocalId(item) \in DOMAIN Table(item.kind) THEN "ok"
            ELSE (IF item.kind = "entity" THEN "NoEntityMapping" ELSE "NoPropertyMapping")
      [] OTHER ->
            IF item.kind = "entity" THEN "UnsupportedNodeType" ELSE "UnsupportedPropertyType"

\* What a term that converts must have become.
Rewritten(item) ==
    IF item.term.termType = "NamedNode"
    THEN NamedNode(SuccessorPrefix(item.kind) \o Table(item.kind)[LocalId(item)])
    ELSE item.term

\* The first item of the walk that fails (0: none does).
FirstFailure(items) ==
    IF \E k \in 1..Len(items) : Verdict(items[k]) # "ok"
    THEN CHOOSE k \in 1..Len(items) :
            /\ Verdict(items[k]) # "ok"
            /\ \A h \in 1..(k - 1) : Verdict(items[h]) = "ok"
    ELSE 0

\* The places of the terms of a tree, inside a clause of any kind, and
\* the item at a place.
TermPlaces(tree) ==
    UNION {{<<i, j, f>> : j \in 1..Len(tree.where[i].triples), f \in Range(Fields)} :
           i \in 1..Len(tree.where)}
TermIn(tree, pl) == tree.where[pl[1]].triples[pl[2]][pl[3]]
ItemAt(tree, pl) ==
    [kind |-> IF pl[3] = "predicate" THEN "property" ELSE "entity",
     clause |-> pl[1], triple |-> pl[2], field |-> pl[3], term |-> TermIn(tree, pl)]
TermAt(tree, item) == tree.where[item.clause].triples[item.triple][item.field]
MissingOf(self, kind) ==
    IF kind = "entity" THEN self.missingEntityMappings ELSE self.missingPropertyMappings

\* The call under way is a walk: the text parsed and the tree has a where.
Walks == sparql.parses /\ sparql.tree.hasWhere

\* C7: a Variable term in a subject, predicate or object position is never
\* mutated and never causes a failure.  For every Variable of the query of
\* the call under way, visiting it with the converter as it is returns
\* without an error, with the term and the converter (so both
\* missing-mapping sets) unchanged; after the call the term is in the tree
\* as it was in the input; and a query all of whose terms are Variables in
\* basic graph patterns is converted.
C7_VariablesPassThrough ==
    (pc \in {"called", "returned"} /\ sparql.parses) =>
        /\ \A pl \in TermPlaces(sparql.tree) :
              LET v == TermIn(sparql.tree, pl)
              IN isVariable(v) =>
                    /\ pl[3] = "predicate" =>
                          convertProperty(v, converter) = Walked(v, "ok", converter)
                    /\ pl[3] # "predicate" =>
                          convertEntity(v, converter) = Walked(v, "ok", converter)
                    /\ pc = "returned" => TermIn(parsed, pl) = v
        /\ ( /\ pc = "returned"
             /\ sparql.stringifies
             /\ \A i \in 1..Len(sparql.tree.where) : sparql.tree.where[i].type = "bgp"
             /\ \A pl \in TermPlaces(sparql.tree) : isVariable(TermIn(sparql.tree, pl)) )
           => /\ outcome = "success"
              /\ parsed = sparql.tree

\* A query with Variables in all three positions, next to rewritten IRIs,
\* has been converted.
C7_Witness ==
    /\ pc = "returned"
    /\ outcome = "success"
    /\ sparql.tree.where = <<Bgp(<<TAllMapped, TAllVariables>>)>>
    /\ parsed.where[1].triples[2] = TAllVariables
    /\ parsed.where[1].triples[1] # TAllMapped

\* C6: when convert succeeds, every IRI in a subject, predicate or object
\* position of the input tree had the legacy prefix of its position kind
\* and a table entry, and stands in the walked tree as the successor prefix
\* of that kind followed by the table's value for its local identifier; no
\* IRI of the walked tree starts with a legacy prefix; and the text returned
\* is the generator's text of that walked tree.
C6_SuccessRewritesEveryIri ==
    (pc = "returned" /\ outcome = "success") =>
        /\ ret = Stringify(parsed)
        /\ Len(parsed.where) = Len(sparql.tree.where)
        /\ TermPlaces(parsed) = TermPlaces(sparql.tree)
        /\ \A pl \in TermPlaces(sparql.tree) :
              LET item == ItemAt(sparql.tree, pl)
              IN IF isNamedNode(item.term)
                 THEN /\ HasLegacyPrefix(item)
                      /\ LocalId(item) \in DOMAIN Table(item.kind)
                      /\ TermIn(parsed, pl) =
                            NamedNode(SuccessorPrefix(item.kind) \o
                                      Table(item.kind)[LocalId(item)])
                 ELSE TermIn(parsed, pl) = item.term
        /\ \A pl \in TermPlaces(parsed) :
              LET t == TermIn(parsed, pl)
              IN isNamedNode(t) =>
                    /\ SubSeq(t.value, 1, Len(FB_ENTITY_PREFIX)) # FB_ENTITY_PREFIX
                    /\ SubSeq(t.value, 1, Len(FB_PROPERTY_PREFIX)) # FB_PROPERTY_PREFIX

\* A query of two clauses with legacy IRIs in all three positions has been
\* converted.
C6_Witness ==
    /\ pc = "returned"
    /\ outcome = "success"
    /\ sparql.tree.where = <<Bgp(<<TAllMapped>>), Bgp(<<TAllMapped>>)>>
    /\ parsed.where[2].triples[1] =
          Triple(NamedNode(<<"wd:", "Q1">>), NamedNode(<<"wdt:", "P1">>),
                 NamedNode(<<"wd:", "Q1">>))

\* The missing-mapping set of a kind holds what it held, or that and one
\* more identifier, which has no entry in the table of that kind.
GrowsByAtMostOne(kind) ==
    LET old == MissingOf(converter, kind)
        new == MissingOf(converter', kind)
    IN \/ new = old
       \/ /\ Len(new) = Len(old) + 1
          /\ SubSeq(new, 1, Len(old)) = old
          /\ new[Len(new)] \notin DOMAIN Table(kind)
Keeps(kind) == MissingOf(converter', kind) = MissingOf(converter, kind)

\* C10: the missing-mapping sets change only in a convert call whose
\* recorded outcome is NoEntityMapping or NoPropertyMapping.  Such a call
\* adds at most one identifier, to the set of its own kind only, and that
\* identifier is no key of the table of that kind; a call with any other
\* outcome, and every step that is no convert call, leaves both sets as
\* they are; nothing is ever removed.  (The mapping tables are constants of
\* the model: the code has no assignment to them.)
C10_MissingSetsFrame ==
    [][CASE ConvertStep /\ outcome' = "NoEntityMapping" ->
                GrowsByAtMostOne("entity") /\ Keeps("property")
         [] ConvertStep /\ outcome' = "NoPropertyMapping" ->
                GrowsByAtMostOne("property") /\ Keeps("entity")
         [] OTHER -> Keeps("entity") /\ Keeps("property")]_vars

\* A call recorded NoPropertyMapping after an earlier call had recorded
\* NoEntityMapping: each set holds one identifier.
C10_Witness ==
    /\ pc = "returned"
    /\ outcome = "NoPropertyMapping"
    /\ converter.missingPropertyMappings = <<(<<"p2">>)>>
    /\ Len(converter.missingEntityMappings) = 1
    /\ "NoEntityMapping" \in DOMAIN converter.counter

\* The missing-mapping sets after a walk that ended at the failing item:
\* nothing but that item's identifier may have been added, to the set of
\* that item's kind, and only if its failure is a missing mapping.
AddsOnlyFor(item, kind) ==
    Range(MissingOf(converter', kind)) \subseteq
        Range(MissingOf(converter, kind)) \cup
        (IF item.kind = kind /\ Verdict(item) \in {"NoEntityMapping", "NoPropertyMapping"}
         THEN {LocalId(item)} ELSE {})

\* C9: the walk visits the clauses in order, the triples of a basic graph
\* pattern in document order and a triple's subject, predicate, object in
\* that order, and stops at the first failure.  In a call whose walk meets
\* a failing item, the recorded outcome is the category of the first failing
\* item in that order; every term before it has been converted; the failing
\* term and every term and clause after it are in the tree as they were in
\* the input; and nothing but the failing term's identifier has been added
\* to a missing-mapping set.
C9_FirstFailureStopsTheWalk ==
    [][(ConvertStep /\ Walks /\ FirstFailure(Items(sparql.tree.where)) # 0) =>
          LET items == Items(sparql.tree.where)
              f == FirstFailure(items)
          IN /\ outcome' = Verdict(items[f])
             /\ ret' = Undefined
             /\ \A k \in 1..(f - 1) : TermAt(parsed', items[k]) = Rewritten(items[k])
             /\ \A k \in f..Len(items) :
                   IF items[k].kind = "clause"
                   THEN parsed'.where[items[k].clause] = sparql.tree.where[items[k].clause]
                   ELSE TermAt(parsed', items[k]) = items[k].term
             /\ AddsOnlyFor(items[f], "entity")
             /\ AddsOnlyFor(items[f], "property")]_vars

\* The triple of the example (unmapped subject, unmapped predicate) after a
\* triple that was rewritten: NoEntityMapping, and no missing relation.
C9_Witness ==
    /\ pc = "returned"
    /\ sparql.tree.where = <<Bgp(<<TAllMapped, TUnmappedAll>>)>>
    /\ outcome = "NoEntityMapping"
    /\ converter.missingEntityMappings = <<(<<"e2">>)>>
    /\ converter.missingPropertyMappings = <<>>
    /\ parsed.where[1].triples[1] # TAllMapped
    /\ parsed.where[1].triples[2] = TUnmappedAll

\* The first clause of a where-clause that is no basic graph pattern (0:
\* every clause is one).
FirstOther(where) ==
    IF \E i \in 1..Len(where) : where[i].type # "bgp"
    THEN CHOOSE i \in 1..Len(where) :
            /\ where[i].type # "bgp"
            /\ \A h \in 1..(i - 1) : where[h].type = "bgp"
    ELSE 0

\* C3, as claimed: a parsed query whose where-clause holds a clause that is
\* no basic graph pattern fails with Unsupported, whatever the clauses
\* before that clause hold.
C3_AlwaysUnsupported ==
    (pc = "returned" /\ Walks /\ FirstOther(sparql.tree.where) # 0) =>
        outcome = "Unsupported"

\* C3, amended: a parsed query whose where-clause holds a clause that is no
\* basic graph pattern never converts.  It fails with Unsupported if every
\* term of the clauses before the first such clause converts, and otherwise
\* with the category of the first failing term of those clauses; the first
\* such clause and the clauses after it are left as they were.
C3_UnsupportedUnlessEarlierFailure ==
    (pc = "returned" /\ Walks /\ FirstOther(sparql.tree.where) # 0) =>
        LET n == FirstOther(sparql.tree.where)
            before == Items(SubSeq(sparql.tree.where, 1, n - 1))
            f == FirstFailure(before)
        IN /\ ret = Undefined
           /\ outcome = IF f = 0 THEN "Unsupported" ELSE Verdict(before[f])
           /\ \A i \in n..Len(sparql.tree.where) :
                 parsed.where[i] = sparql.tree.where[i]

\* Unsupported, recorded after the clause before has been rewritten.
C3_Witness ==
    /\ pc = "returned"
    /\ sparql.tree.where = <<Bgp(<<TAllMapped>>), Optional>>
    /\ outcome = "Unsupported"
    /\ parsed.where[1] # sparql.tree.where[1]
    /\ parsed.where[2] = Optional

NoDuplicates(seq) == \A i, j \in 1..Len(seq) : seq[i] = seq[j] => i = j
MissingCode(kind) == IF kind = "entity" THEN "NoEntityMapping" ELSE "NoPropertyMapping"
\* The places of the terms of the basic graph patterns of a tree.
BgpPlaces(tree) == {pl \in TermPlaces(tree) : tree.where[pl[1]].type = "bgp"}
\* A legacy IRI of its position's kind with no entry in that kind's table.
Unmapped(item) ==
    /\ isNamedNode(item.term)
    /\ HasLegacyPrefix(item)
    /\ LocalId(item) \notin DOMAIN Table(item.kind)

\* C5, as claimed: a conversion attempt of a query that holds, in a triple
\* of a basic graph pattern, a legacy IRI with no table entry fails with the
\* missing-mapping category of that IRI's kind, and the IRI's local
\* identifier is in the missing-mapping set of that kind exactly once.
C5_EveryUnmappedIriReported ==
    (pc = "returned" /\ Walks) =>
        \A pl \in BgpPlaces(sparql.tree) :
            LET item == ItemAt(sparql.tree, pl)
            IN Unmapped(item) =>
                  /\ outcome = MissingCode(item.kind)
                  /\ Occurrences(MissingOf(converter, item.kind), LocalId(item)) = 1

\* C5, amended: no identifier is ever in a missing-mapping set twice; and
\* when the first failing item of a call's walk is a legacy IRI with no
\* table entry, the call records the missing-mapping category of that IRI's
\* kind, adds exactly 1 to that category and to no other, and the IRI's
\* local identifier is then in the missing-mapping set of that kind exactly
\* once, whether or not an earlier call had met it.
C5_FirstUnmappedIriReported ==
    /\ [](/\ NoDuplicates(converter.missingEntityMappings)
          /\ NoDuplicates(converter.missingPropertyMappings))
    /\ [][(ConvertStep /\ Walks /\ FirstFailure(Items(sparql.tree.where)) # 0) =>
             LET items == Items(sparql.tree.where)
                 item == items[FirstFailure(items)]
             IN (item.kind # "clause" /\ Unmapped(item)) =>
                   /\ outcome' = MissingCode(item.kind)
                   /\ IncrementsOnly(MissingCode(item.kind))
                   /\ Occurrences(MissingOf(converter', item.kind), LocalId(item)) = 1]_vars

\* The same unmapped entity has been met by two calls: counted twice, held
\* once.
C5_Witness ==
    /\ pc = "returned"
    /\ calls = 2
    /\ outcome = "NoEntityMapping"
    /\ converter.counter["NoEntityMapping"] = 2
    /\ converter.missingEntityMappings = <<(<<"e2">>)>>

\* ------------------------------------------------------------ the batch
\* What convert returns for a query, and whether it converts it: neither
\* depends on the tally or on the missing-mapping sets.
ResultOf(q) == convert(q, NewConverter).ret
Converts(q) == convert(q, NewConverter).outcome = "success"
\* The first candidate parse of an example that converts (0: none does).
FirstConverting(e) ==
    IF \E j \in 1..Len(e.Parses) : Converts(e.Parses[j])
    THEN CHOOSE j \in 1..Len(e.Parses) :
            /\ Converts(e.Parses[j])
            /\ \A h \in 1..(j - 1) : ~Converts(e.Parses[h])
    ELSE 0
\* main has finished the example ex.
ExampleDone == pc = "main" /\ examples # <<>>

\* C1, as claimed: convert is never called on a candidate parse that comes
\* after a parse of the same example that has converted.
C1_LaterParsesSkipped ==
    pc = "called" => \A j \in 1..Len(converted) : ~Truthy(converted[j])

\* C1, amended: for each example, convert is called on every candidate
\* parse, in the given order, whether or not an earlier parse of the example
\* has converted.  Every candidate parse adds 1 to the tally, and one whose
\* walk ends at an unmapped legacy IRI has that IRI's identifier in the
\* missing-mapping set; the parse kept is the first that converts.
C1_EveryParseConverted ==
    /\ pc \in {"called", "returned"} =>
          /\ idx = Len(converted) + 1
          /\ idx <= Len(ex.Parses)
          /\ sparql = ex.Parses[idx]
    /\ \A j \in 1..Len(converted) : converted[j] = ResultOf(ex.Parses[j])
    /\ pc = "main" =>
          /\ Len(converted) = Len(ex.Parses)
          /\ calls = offered
          /\ TallySum(converter.counter) = offered
          /\ \A j \in 1..Len(ex.Parses) :
                LET items == Items(ex.Parses[j].tree.where)
                    f == FirstFailure(items)
                IN (f # 0 /\ items[f].kind # "clause" /\ Unmapped(items[f])) =>
                      LocalId(items[f]) \in
                          Range(MissingOf(converter, items[f].kind))
    /\ ExampleDone =>
          examples[Len(examples)].sparql =
              (IF FirstConverting(ex) = 0 THEN Null
               ELSE ResultOf(ex.Parses[FirstConverting(ex)]))

\* The example of three candidate parses of which only the second
\* converts: three calls, three counts, the second parse's text kept.
C1_Witness ==
    /\ ExampleDone
    /\ Len(examples) = 1
    /\ ex.Parses = <<QUnmapped, QVariables, QUnmapped>>
    /\ converted = <<Undefined, Stringify(QVariables.tree), Undefined>>
    /\ calls = 3
    /\ converter.counter = [k \in {"NoEntityMapping", "success"} |->
                               IF k = "success" THEN 1 ELSE 2]
    /\ examples[1].sparql = Stringify(QVariables.tree)

\* C8: the batch yields one output record per input example, in input
\* order: in every state there is one record for each example main has
\* finished, with that example's question; the record of the example just
\* finished holds null exactly when no candidate parse of it converts, and
\* otherwise the text convert returns for its first candidate parse that
\* converts; and a record, once written, is never changed or removed.
C8_OneRecordPerExample ==
    /\ [](/\ Len(examples) = Len(consumed) - (IF pc = "main" THEN 0 ELSE 1)
          /\ \A i \in 1..Len(examples) : examples[i].question = consumed[i]
          /\ ExampleDone =>
                LET r == examples[Len(examples)]
                    first == FirstConverting(ex)
                IN /\ r.question = ex.RawQuestion
                   /\ r.sparql = Null <=> first = 0
                   /\ first # 0 => r.sparql = ResultOf(ex.Parses[first]))
    /\ [][/\ Len(examples') >= Len(examples)
          /\ \A i \in 1..Len(examples) : examples'[i] = examples[i]]_vars

\* A record with null, then the record of another question whose first
\* parse fails and whose second and third convert to different texts.
C8_Witness ==
    /\ ExampleDone
    /\ Len(examples) = 2
    /\ examples[1].sparql = Null
    /\ examples[1].question # examples[2].question
    /\ ex.Parses = <<QUnmapped, QVariables, QMapped>>
    /\ examples[2].sparql = Stringify(QVariables.tree)

====
